---------------------------- MODULE Spec2Model ----------------------------
(***************************************************************************)
(* A model of the HoneyPot core: the intelligence aggregator               *)
(* (app/core/intelligence_aggregator.py) and the agent orchestrator        *)
(* (app/core/orchestrator.py).                                             *)
(*                                                                         *)
(* Text is modelled as sequences of one-character strings wherever the     *)
(* code looks inside it (prefixes, lengths, separators, surrounding        *)
(* whitespace); values the code only copies are plain strings.             *)
(***************************************************************************)
EXTENDS Integers, Sequences, FiniteSets, TLC

\* ------------------------------------------------------------------ bounds

\* The longest conversation history an extraction call is given.
MaxHistory == 2

\* The number of turns process_message handles for one session.
MaxTurns == 2

\* ------------------------------------------------------- generic helpers

Range(s) == { s[i] : i \in 1..Len(s) }

RECURSIVE SeqOfSet(_)
\* list(set(...)): some list of the set's elements, each once.  Python leaves
\* the order unspecified; no formula below reads the order of such a list.
SeqOfSet(S) ==
  IF S = {} THEN << >>
  ELSE LET x == CHOOSE y \in S : TRUE IN << x >> \o SeqOfSet(S \ {x})

RECURSIVE Flatten(_)
\* list.extend over a sequence of lists
Flatten(ss) == IF ss = << >> THEN << >> ELSE Head(ss) \o Flatten(Tail(ss))

\* Python's None and the values that may stand where None may stand
None == [tag |-> "None"]

\* str.startswith
StartsWith(s, p) == Len(s) >= Len(p) /\ SubSeq(s, 1, Len(p)) = p

\* the characters re's \s matches, among those the model uses
Whitespace == { " ", "\t", "\n" }

\* the characters of the class [-.\s]
Separators == { "-", "." } \cup Whitespace

\* re.sub(r'[-.\s]', '', s)
StripSeparators(s) == SelectSeq(s, LAMBDA c : c \notin Separators)

RECURSIVE LStrip(_)
LStrip(s) == IF s # << >> /\ Head(s) \in Whitespace THEN LStrip(Tail(s)) ELSE s

RECURSIVE RStrip(_)
RStrip(s) ==
  IF s # << >> /\ s[Len(s)] \in Whitespace THEN RStrip(SubSeq(s, 1, Len(s) - 1)) ELSE s

\* str.strip()
Strip(s) == LStrip(RStrip(s))

\* ------------------------------------------------------------ the inputs

\* two subscriber numbers: one with a mobile leading digit, one without
Mobile1 == << "9", "8", "7", "6", "5", "4", "3", "2", "1", "0" >>
Landline == << "1", "2", "3", "4", "5", "6", "7", "8", "9", "0" >>

\* the written shapes of a phone number, as PHONE_NUMBER.findall yields them
PhonePlus == << "+", "9", "1", "-" >> \o Mobile1
PhoneCC == << "9", "1", " " >> \o Mobile1
PhoneTrunk == << "0", "-" >> \o SubSeq(Mobile1, 1, 4) \o << "-" >>
                \o SubSeq(Mobile1, 5, 7) \o << "-" >> \o SubSeq(Mobile1, 8, 10)
PhoneBare == Mobile1
PhoneLandline == Landline
PhoneShort == << "9", "8", "7", "6", "5" >>
PhoneCanonical == << "+", "9", "1" >> \o Mobile1

\* one bank account written with and without separators, and another account
BankSep == << "1", "2", "3", "4", "-", "5", "6", "7", "8" >>
BankRaw == << "1", "2", "3", "4", "5", "6", "7", "8" >>
BankOther == << "9", "9", " ", "0", "0", ".", "1", "1" >>

\* A message text, seen through the Pattern Library: what each matcher's
\* findall returns on it, and the words of the text.
MkText(b, u, p, l, w) == [bank |-> b, upi |-> u, phone |-> p, url |-> l, words |-> w]

TextHello == MkText(<< >>, << >>, << >>, << >>, << "hello" >>)
TextUrgent == MkText(<< >>, << >>, << >>, << >>, << "URGENT", "otp" >>)
TextBankSep ==
  MkText(<< BankSep >>, << >>, << PhoneTrunk, PhoneShort >>, << >>, << "Blocked" >>)
TextBankRaw ==
  MkText(<< BankRaw, BankOther >>, << "scammer@paytm" >>, << PhoneBare >>, << >>, << "pay" >>)
TextLink ==
  MkText(<< >>, << "scammer@paytm", "fraud@ybl" >>, << PhoneCC, PhoneLandline >>,
         << "http://bad.example" >>, << "verify", "click" >>)
TextPlus ==
  MkText(<< >>, << >>, << PhonePlus >>, << "http://bad.example", "bit.ly/x" >>, << "call" >>)

Texts == { TextHello, TextUrgent, TextBankSep, TextBankRaw, TextLink, TextPlus }

\* Message(sender, text, timestamp); the timestamp is read by no code here
Message(t) == [sender |-> "scammer", text |-> t]

Messages == { Message(t) : t \in Texts }

\* ------------------------------------------------------- Pattern Library

\* RegexPatterns.BANK_ACCOUNT.findall(text)
BANK_ACCOUNT_findall(text) == text.bank

\* RegexPatterns.UPI_ID.findall(text)
UPI_ID_findall(text) == text.upi

\* RegexPatterns.PHONE_NUMBER.findall(text)
PHONE_NUMBER_findall(text) == text.phone

\* RegexPatterns.URL.findall(text)
URL_findall(text) == text.url

\* ScamKeywords.SUSPICIOUS_KEYWORDS
SUSPICIOUS_KEYWORDS == << "urgent", "blocked", "otp", "verify" >>

\* str.lower() of one word
LowerWord(w) ==
  CASE w = "URGENT" -> "urgent"
    [] w = "Blocked" -> "blocked"
    [] OTHER -> w

\* text.lower(), word by word
Lower(words) == [i \in 1..Len(words) |-> LowerWord(words[i])]

\* keyword in text_lower
KeywordIn(keyword, text_lower) == keyword \in Range(text_lower)


\* ------------------------------------------------- ExtractedIntelligence

\* ExtractedIntelligence(): the five collections, each an empty list
ExtractedIntelligence ==
  [tag |-> "Intel", bankAccounts |-> << >>, phoneNumbers |-> << >>, upiIds |-> << >>,
   phishingLinks |-> << >>, suspiciousKeywords |-> << >>]

Classes == { "bankAccounts", "phoneNumbers", "upiIds", "phishingLinks", "suspiciousKeywords" }

\* Python's truth value of an Optional[ExtractedIntelligence]: None is false,
\* an instance is true whatever its collections hold.
Truthy(x) == x.tag # "None"

\* --------------------------------------------- _regex_extract_intelligence

Plus91 == << "+", "9", "1" >>

\* FormatPhone with the trunk prefix kept behind the country code
FormatPhone_TrunkKept(match) ==
  LET cleaned == StripSeparators(match) IN
    IF StartsWith(cleaned, Plus91) /\ Len(cleaned) = 13 THEN << cleaned >>
    ELSE IF StartsWith(cleaned, << "9", "1" >>) /\ Len(cleaned) = 12
      THEN << << "+" >> \o cleaned >>
    ELSE IF StartsWith(cleaned, << "0" >>) /\ Len(cleaned) = 11
      THEN << Plus91 \o cleaned >>
    ELSE IF ~StartsWith(cleaned, << "+" >>) /\ Len(cleaned) = 10
            /\ cleaned[1] \in { "6", "7", "8", "9" }
      THEN << Plus91 \o cleaned >>
    ELSE << >>

\* FormatPhone with the value that starts with the country code appended as
\* it was cleaned, without the plus sign
FormatPhone_NoPlus(match) ==
  LET cleaned == StripSeparators(match) IN
    IF StartsWith(cleaned, Plus91) /\ Len(cleaned) = 13 THEN << cleaned >>
    ELSE IF StartsWith(cleaned, << "9", "1" >>) /\ Len(cleaned) = 12
      THEN << cleaned >>
    ELSE IF StartsWith(cleaned, << "0" >>) /\ Len(cleaned) = 11
      THEN << Plus91 \o Tail(cleaned) >>
    ELSE IF ~StartsWith(cleaned, << "+" >>) /\ Len(cleaned) = 10
            /\ cleaned[1] \in { "6", "7", "8", "9" }
      THEN << Plus91 \o cleaned >>
    ELSE << >>

\* the phone branch for a match of the current message
FormatPhone(match) ==
  LET cleaned == StripSeparators(match) IN
    IF StartsWith(cleaned, Plus91) /\ Len(cleaned) = 13 THEN << cleaned >>
    ELSE IF StartsWith(cleaned, << "9", "1" >>) /\ Len(cleaned) = 12
      THEN << << "+" >> \o cleaned >>
    ELSE IF StartsWith(cleaned, << "0" >>) /\ Len(cleaned) = 11
      THEN << Plus91 \o Tail(cleaned) >>
    ELSE IF ~StartsWith(cleaned, << "+" >>) /\ Len(cleaned) = 10
            /\ cleaned[1] \in { "6", "7", "8", "9" }
      THEN << Plus91 \o cleaned >>
    ELSE << >>

\* HistFormatPhone without the branch of the trunk prefix
HistFormatPhone_NoTrunk(match) ==
  LET cleaned == StripSeparators(match) IN
    IF StartsWith(cleaned, Plus91) /\ Len(cleaned) = 13 THEN << cleaned >>
    ELSE IF StartsWith(cleaned, << "9", "1" >>) /\ Len(cleaned) = 12
      THEN << << "+" >> \o cleaned >>
    ELSE IF ~StartsWith(cleaned, << "+" >>) /\ Len(cleaned) = 10
            /\ cleaned[1] \in { "6", "7", "8", "9" }
      THEN << Plus91 \o cleaned >>
    ELSE << >>

\* the phone branch for a match of a history message
HistFormatPhone(match) ==
  LET cleaned == StripSeparators(match) IN
    IF StartsWith(cleaned, Plus91) /\ Len(cleaned) = 13 THEN << cleaned >>
    ELSE IF StartsWith(cleaned, << "9", "1" >>) /\ Len(cleaned) = 12
      THEN << << "+" >> \o cleaned >>
    ELSE IF StartsWith(cleaned, << "0" >>) /\ Len(cleaned) = 11
      THEN << Plus91 \o Tail(cleaned) >>
    ELSE IF ~StartsWith(cleaned, << "+" >>) /\ Len(cleaned) = 10
            /\ cleaned[1] \in { "6", "7", "8", "9" }
      THEN << Plus91 \o cleaned >>
    ELSE << >>

\* what the body appends for the current message, before deduplication
CurrentArtifacts(text) ==
  LET banks == BANK_ACCOUNT_findall(text)
      phones == PHONE_NUMBER_findall(text)
      text_lower == Lower(text.words)
  IN [bankAccounts |-> [i \in 1..Len(banks) |-> StripSeparators(banks[i])],
      upiIds |-> UPI_ID_findall(text),
      phoneNumbers |-> Flatten([i \in 1..Len(phones) |-> FormatPhone(phones[i])]),
      phishingLinks |-> URL_findall(text),
      suspiciousKeywords |->
        SelectSeq(SUSPICIOUS_KEYWORDS, LAMBDA keyword : KeywordIn(keyword, text_lower))]

\* what one pass of the history loop appends
HistoryArtifacts(hist_text) ==
  LET hist_banks == BANK_ACCOUNT_findall(hist_text)
      hist_phone_matches == PHONE_NUMBER_findall(hist_text)
  IN [bankAccounts |-> [i \in 1..Len(hist_banks) |-> StripSeparators(hist_banks[i])],
      upiIds |-> UPI_ID_findall(hist_text),
      phoneNumbers |->
        Flatten([i \in 1..Len(hist_phone_matches) |-> HistFormatPhone(hist_phone_matches[i])]),
      phishingLinks |-> URL_findall(hist_text),
      suspiciousKeywords |-> << >>]

\* RemoveDuplicates with the list left as it is
RemoveDuplicates_Kept(list) == list

\* "Remove duplicates": list(set(...)) of one collection
RemoveDuplicates(list) == SeqOfSet(Range(list))

_regex_extract_intelligence(message, conversation_history) ==
  LET cur == CurrentArtifacts(message.text)
      hist == [i \in 1..Len(conversation_history) |->
                 HistoryArtifacts(conversation_history[i].text)]
      all(c) == cur[c] \o Flatten([i \in 1..Len(hist) |-> hist[i][c]])
  IN [tag |-> "Intel",
      bankAccounts |-> RemoveDuplicates(all("bankAccounts")),
      phoneNumbers |-> RemoveDuplicates(all("phoneNumbers")),
      upiIds |-> RemoveDuplicates(all("upiIds")),
      phishingLinks |-> RemoveDuplicates(all("phishingLinks")),
      suspiciousKeywords |-> RemoveDuplicates(all("suspiciousKeywords"))]

\* ------------------------------------------------ the external service

\* The text of a completion is a sequence of tokens: formatting markers,
\* whitespace, braces, prose, and the members of a JSON object (a function
\* from the keys present to a JSON array or null).
Tok(t) == [t |-> t]
Body(obj) == [t |-> "members", obj |-> obj]

JsonArray(items) == [tag |-> "Array", items |-> items]
JsonNull == [tag |-> "Null"]

\* A JSON number among the items of an array: its digits behind a mark no
\* string of the model starts with.  json.loads yields an int for it, and the
\* int stays an int wherever the code copies the item.
JsonNumber(digits) == << "number" >> \o digits

\* isinstance(item, str), for an item of a list of bank accounts or phones
IsStr(item) == item = << >> \/ Head(item) # "number"

ObjectText(obj) == << Tok("{"), Body(obj), Tok("}") >>
ArrayText == << Tok("["), Tok("]") >>
\* the code-fence marker (three backquotes)
Fence == Tok("fence")
Space == Tok(" ")
Newline == Tok("\n")

\* the answers the external service gives in the model
ObjEmpty ==
  [k \in Classes |-> JsonArray(<< >>)]
ObjNoKeys == [k \in {} |-> JsonNull]
ObjFull ==
  [bankAccounts |-> JsonArray(<< BankRaw >>),
   phoneNumbers |-> JsonArray(<< << " " >> \o PhoneCanonical \o << " " >> >>),
   upiIds |-> JsonArray(<< "scammer@paytm" >>),
   phishingLinks |-> JsonArray(<< >>),
   suspiciousKeywords |-> JsonArray(<< "urgent" >>)]
ObjDup ==
  [bankAccounts |-> JsonArray(<< >>),
   phoneNumbers |-> JsonArray(<< << "+", "1", "5", "5", "5" >>, << "+", "1", "5", "5", "5" >> >>),
   upiIds |-> JsonArray(<< >>),
   phishingLinks |-> JsonArray(<< "bit.ly/x" >>),
   suspiciousKeywords |-> JsonArray(<< >>)]
ObjNoBank ==
  [upiIds |-> JsonArray(<< "fraud@ybl" >>), phoneNumbers |-> JsonArray(<< >>)]
ObjNullBank ==
  [bankAccounts |-> JsonNull, phoneNumbers |-> JsonArray(<< PhoneCanonical >>)]

Objects == { ObjEmpty, ObjNoKeys, ObjFull, ObjDup, ObjNoBank, ObjNullBank }

\* an answer that gives the bank account as a number, not as a string
ObjNumber ==
  [bankAccounts |-> JsonArray(<< JsonNumber(BankRaw) >>),
   phoneNumbers |-> JsonArray(<< >>),
   upiIds |-> JsonArray(<< >>),
   phishingLinks |-> JsonArray(<< >>),
   suspiciousKeywords |-> JsonArray(<< "urgent" >>)]

Bare(obj) == << Newline >> \o ObjectText(obj) \o << Newline >>
Fenced(obj) == << Fence, Newline >> \o ObjectText(obj) \o << Newline, Fence >>
FencedJson(obj) == << Fence, Tok("json"), Newline >> \o ObjectText(obj) \o << Newline, Fence >>
InProse(obj) == << Tok("prose"), Space >> \o ObjectText(obj) \o << Space, Tok("prose") >>
InBracedProse(obj) ==
  << Tok("{"), Tok("prose"), Tok("}"), Space >> \o ObjectText(obj)

Contents ==
  { Bare(o) : o \in Objects }
    \cup { Fenced(ObjFull), FencedJson(ObjFull), InProse(ObjFull), InBracedProse(ObjFull),
           Fenced(ObjEmpty), InProse(ObjNoBank), InProse(ObjEmpty),
           << Tok("prose") >>, ArrayText, << >> }

\* chat.completions.create: it raises, or it answers with a content
LLMReplies == { [kind |-> "raise"] } \cup { [kind |-> "content", content |-> c] : c \in Contents }

\* ------------------------------------------------ _llm_extract_intelligence

WhitespaceToks == { Tok(c) : c \in Whitespace }

RECURSIVE LStripToks(_)
LStripToks(s) == IF s # << >> /\ Head(s) \in WhitespaceToks THEN LStripToks(Tail(s)) ELSE s

RECURSIVE RStripToks(_)
RStripToks(s) ==
  IF s # << >> /\ s[Len(s)] \in WhitespaceToks
    THEN RStripToks(SubSeq(s, 1, Len(s) - 1)) ELSE s

\* str.strip() of a completion text
StripToks(s) == LStripToks(RStripToks(s))

\* response_text.split(marker)[1], for a text that starts with the marker
SplitFenceSecond(s) ==
  LET rest == Tail(s)
      stops == { i \in 1..Len(rest) : rest[i] = Fence }
      stop == IF stops = {} THEN Len(rest) + 1
              ELSE CHOOSE i \in stops : \A j \in stops : i <= j
  IN SubSeq(rest, 1, stop - 1)

\* lines 88-92: the text without its formatting markers
Unfence(response_text) ==
  IF response_text # << >> /\ Head(response_text) = Fence
    THEN LET inner == SplitFenceSecond(response_text)
             nojson == IF inner # << >> /\ Head(inner) = Tok("json") THEN Tail(inner) ELSE inner
         IN StripToks(nojson)
    ELSE response_text

\* lines 97-99: re.search for an opening brace, then the bankAccounts key,
\* then a closing brace, with DOTALL: the leftmost match taken greedily, or
\* the text itself when nothing matches
SearchJson(text) ==
  LET hasKey(j) == text[j].t = "members" /\ "bankAccounts" \in DOMAIN text[j].obj
      starts == { i \in 1..Len(text) :
                    /\ text[i] = Tok("{")
                    /\ \E j \in (i + 1)..Len(text) :
                         hasKey(j) /\ \E k \in (j + 1)..Len(text) : text[k] = Tok("}") }
      closes == { k \in 1..Len(text) : text[k] = Tok("}") }
  IN IF starts = {} THEN text
     ELSE LET i == CHOOSE a \in starts : \A b \in starts : a <= b
              k == CHOOSE a \in closes : \A b \in closes : a >= b
          IN SubSeq(text, i, k)

\* JsonLoads with a JSON array read as an object without keys
JsonLoads_ArrayAsObject(text) ==
  LET t == StripToks(text) IN
    IF Len(t) = 3 /\ t[1] = Tok("{") /\ t[2].t = "members" /\ t[3] = Tok("}")
      THEN [raised |-> FALSE, kind |-> "object", obj |-> t[2].obj]
    ELSE IF t = ArrayText THEN [raised |-> FALSE, kind |-> "object", obj |-> ObjNoKeys]
    ELSE [raised |-> TRUE, kind |-> "none", obj |-> ObjNoKeys]

\* json.loads: the value, or the exception it raises
JsonLoads(text) ==
  LET t == StripToks(text) IN
    IF Len(t) = 3 /\ t[1] = Tok("{") /\ t[2].t = "members" /\ t[3] = Tok("}")
      THEN [raised |-> FALSE, kind |-> "object", obj |-> t[2].obj]
    ELSE IF t = ArrayText THEN [raised |-> FALSE, kind |-> "array", obj |-> ObjNoKeys]
    ELSE [raised |-> TRUE, kind |-> "none", obj |-> ObjNoKeys]

\* llm_result.get(key, []) and llm_result.get(key)
DictGet(obj, key) == IF key \in DOMAIN obj THEN obj[key] ELSE JsonArray(<< >>)
DictGetTruthy(obj, key) ==
  key \in DOMAIN obj /\ obj[key].tag = "Array" /\ obj[key].items # << >>

\* lines 103-109: str(phone).strip() for each phone of the answer
NormalizedPhones(obj) ==
  IF DictGetTruthy(obj, "phoneNumbers")
    THEN LET ps == obj["phoneNumbers"].items
         IN JsonArray([i \in 1..Len(ps) |-> Strip(ps[i])])
    ELSE DictGet(obj, "phoneNumbers")

\* lines 72-120, the body of the try: the intelligence it returns, or that
\* it raises
LlmTryBody(reply) ==
  IF reply.kind = "raise" THEN [raised |-> TRUE, value |-> None]
  ELSE
    LET response_text == SearchJson(Unfence(StripToks(reply.content)))
        loaded == JsonLoads(response_text)
    IN
      IF loaded.raised \/ loaded.kind # "object" THEN [raised |-> TRUE, value |-> None]
      ELSE
        LET llm_result == loaded.obj
            banks == DictGet(llm_result, "bankAccounts")
            phones == NormalizedPhones(llm_result)
            upis == DictGet(llm_result, "upiIds")
            links == DictGet(llm_result, "phishingLinks")
            words == DictGet(llm_result, "suspiciousKeywords")
        IN
          \* line 119 takes len() of the first three collections; the answers
          \* of the model hold no null in the other two
          IF banks.tag # "Array" \/ phones.tag # "Array" \/ upis.tag # "Array"
            THEN [raised |-> TRUE, value |-> None]
          ELSE [raised |-> FALSE,
                value |-> [tag |-> "Intel",
                           bankAccounts |-> banks.items,
                           phoneNumbers |-> phones.items,
                           upiIds |-> upis.items,
                           phishingLinks |-> links.items,
                           suspiciousKeywords |-> words.items]]

\* _llm_extract_intelligence with an empty ExtractedIntelligence returned
\* from the except branch
_llm_extract_intelligence_EmptyOnError(message, conversation_history, reply) ==
  LET body == LlmTryBody(reply) IN
    IF body.raised THEN ExtractedIntelligence ELSE body.value

\* lines 122-124: any exception is logged and None returned
_llm_extract_intelligence(message, conversation_history, reply) ==
  LET body == LlmTryBody(reply) IN
    IF body.raised THEN None ELSE body.value

\* ---------------------------------------------------- extract_intelligence

\* The outcome of one call: whether an exception left the call, the value
\* returned, the requests made to the external service and whether the
\* regex method ran.
Outcome(raised, value, requests, regexRan) ==
  [raised |-> raised, value |-> value, requests |-> requests, regexRan |-> regexRan]

\* extract_intelligence with the regex method run whatever the external
\* method returned
extract_intelligence_RegexOnly(groq_client, message, conversation_history, reply) ==
  Outcome(FALSE, _regex_extract_intelligence(message, conversation_history),
          IF groq_client THEN 1 ELSE 0, TRUE)

\* extract_intelligence with neither try/except: what the external call
\* raises leaves the call
extract_intelligence_Unguarded(groq_client, message, conversation_history, reply) ==
  LET body == LlmTryBody(reply) IN
    IF groq_client /\ body.raised THEN Outcome(TRUE, None, 1, FALSE)
    ELSE IF groq_client THEN Outcome(FALSE, body.value, 1, FALSE)
    ELSE Outcome(FALSE, _regex_extract_intelligence(message, conversation_history), 0, TRUE)

\* extract_intelligence with the external request sent a second time when the
\* first one yields nothing
extract_intelligence_Retry(groq_client, message, conversation_history, reply) ==
  LET llm_intelligence == _llm_extract_intelligence(message, conversation_history, reply)
  IN IF groq_client /\ Truthy(llm_intelligence)
       THEN Outcome(FALSE, llm_intelligence, 1, FALSE)
       ELSE Outcome(FALSE, _regex_extract_intelligence(message, conversation_history),
                    IF groq_client THEN 2 ELSE 0, TRUE)

extract_intelligence(groq_client, message, conversation_history, reply) ==
  LET llm_intelligence == _llm_extract_intelligence(message, conversation_history, reply)
  IN IF groq_client /\ Truthy(llm_intelligence)
       THEN Outcome(FALSE, llm_intelligence, 1, FALSE)
       ELSE Outcome(FALSE, _regex_extract_intelligence(message, conversation_history),
                    IF groq_client THEN 1 ELSE 0, TRUE)

\* ------------------------------------------------------------------- state

VARIABLES
  aggClient,      \* IntelligenceAggregator._groq_client is set
  orchClient,     \* Orchestrator._groq_client is set
  convHistory,    \* the history of the conversation the aggregator is called on
  curMessage,     \* the message of the last extract_intelligence call
  llmReply,       \* what the external service did in that call
  extracted,      \* the outcome of that call
  prevExtracted,  \* the outcome of the call before it
  prevReply,      \* when the last call repeated the call before it on the same
                  \* message and history: what the external service did then
  xpc,            \* "idle", or "extracted": called and the message not yet appended
  active,         \* the sessions that receive messages
  session,        \* SessionState, by sessionId
  turn,           \* the locals of process_message, by sessionId
  fb              \* the last FallbackResponses.get_response call

aggVars == << convHistory, curMessage, llmReply, extracted, prevExtracted, prevReply, xpc >>
pipeVars == << active, session, turn >>
vars == << aggClient, orchClient, aggVars, pipeVars, fb >>

NoOutcome == Outcome(FALSE, None, 0, FALSE)

\* get_response has not been called
NoFallbackCall == [pc |-> "idle", goal |-> "CONTINUE", message_text |-> << >>, ret |-> ""]

\* the last call repeated no call
NoReply == [kind |-> "none"]

AggInit ==
  /\ convHistory = << >>
  /\ curMessage = Message(TextHello)
  /\ llmReply = [kind |-> "raise"]
  /\ extracted = NoOutcome
  /\ prevExtracted = NoOutcome
  /\ prevReply = NoReply
  /\ xpc = "idle"

\* ------------------------------------------------------------ the pipeline

Sessions == { "A", "B" }

\* ConversationGoal
Goals == { "CLARIFY", "DELAY", "ESCALATE", "CONTINUE", "WRAP_UP" }

\* StrategyDecision(goal, should_engage, reasoning); the reasoning is only logged
Decisions == [goal : Goals, should_engage : BOOLEAN]

\* the decisions StrategyAgent.decide_strategy takes in the model
TurnDecisions == { d \in Decisions : d.goal \in { "CONTINUE", "CLARIFY", "WRAP_UP" } }

\* the stages, in the order of the module's execution model
StageOrder == << "Extraction", "Strategy", "Response-Generation", "Safety-Gate" >>

Str(s) == [tag |-> "Str", text |-> s]

\* what PersonaAgent.generate_response may hand back
CandidateOk == "How do I verify? Can you explain the process?"
CandidateBad == "I am an AI, this is a honeypot"
SafeFallback == "I'm not sure how to respond to that. Can you clarify?"
PersonaReplies == { "", CandidateOk, CandidateBad }

\* ForbiddenPhrases.FORBIDDEN, as far as the candidates of the model hold them
Denylisted == { CandidateBad }

\* safety_guard.validate_response(response) -> (is_valid, error)
validate_response(response) ==
  IF response \in Denylisted
    THEN [is_valid |-> FALSE, error |-> "Forbidden phrase detected"]
    ELSE [is_valid |-> TRUE, error |-> ""]

\* the messages and the extraction answers the turns of the pipeline draw from
TurnMessages == { Message(TextUrgent), Message(TextBankRaw) }
TurnReplies ==
  { [kind |-> "raise"],
    [kind |-> "content", content |-> Bare(ObjFull)],
    [kind |-> "content", content |-> Bare(ObjNumber)] }

\* what the external service does with an agent-notes request: it raises, or
\* it answers with a text (a sequence of characters)
NoteReplies ==
  { [kind |-> "raise", content |-> << >>],
    [kind |-> "content", content |-> << " " >>],
    [kind |-> "content", content |-> << "\"", "S", "\"", "\n" >>],
    [kind |-> "content", content |-> << "S" >>] }

\* session.finalDecisionReason, set by the detector before the pipeline runs
Reasons == { "", "Urgency and OTP request" }

\* an agent note; the kind tells which statement of the code appended it
Note(kind, text, parts, error) ==
  [kind |-> kind, text |-> text, parts |-> parts, error |-> error]

\* SessionState
NewSession(reason) ==
  [conversationHistory |-> << >>,
   extractedIntelligence |-> ExtractedIntelligence,
   conversationEnded |-> FALSE,
   finalDecisionReason |-> reason,
   agentNotes |-> << >>]

\* the locals of one process_message call, and what the call has done so far
NewTurn(count) ==
  [pc |-> "idle", count |-> count,
   message |-> Message(TextHello),
   intelligence |-> ExtractedIntelligence,
   strategy_decision |-> [goal |-> "CONTINUE", should_engage |-> TRUE],
   candidate |-> "", response |-> "", is_valid |-> TRUE,
   ret |-> None,
   stages |-> << >>,
   endedBefore |-> FALSE, notesBefore |-> 0, before |-> NewSession(""),
   updates |-> 0, requests |-> 0, noteRequests |-> 0, regexRan |-> FALSE,
   extractionRaised |-> FALSE, externalFailed |-> FALSE,
   nreply |-> [kind |-> "raise", content |-> << >>]]

\* session_manager.update_session(sessionId, message, intelligence=...)
update_session(sess, message, intelligence) ==
  [sess EXCEPT !.conversationHistory = Append(@, message),
               !.extractedIntelligence = intelligence]

\* session_manager.add_agent_note(sessionId, note)
add_agent_note(sess, note) == [sess EXCEPT !.agentNotes = Append(@, note)]

\* _extract_intelligence_parallel with None returned from the except branch
_extract_intelligence_parallel_NoneOnError(out) == out.value

\* _extract_intelligence_parallel: an exception of the aggregator is logged
\* and an empty ExtractedIntelligence returned
_extract_intelligence_parallel(out) ==
  IF out.raised THEN ExtractedIntelligence ELSE out.value

\* lines 93-98, the test of "if not strategy_decision.should_engage"
Declines(strategy_decision) == ~strategy_decision.should_engage

\* EndedOnDecline with the assignment of line 97 left out
EndedOnDecline_Kept(ended, strategy_decision) == ended

\* EndedOnDecline with the flag set whatever the goal is
EndedOnDecline_Always(ended, strategy_decision) == TRUE

\* lines 96-97, for a decision that declines: conversationEnded after them
EndedOnDecline(ended, strategy_decision) ==
  IF strategy_decision.goal = "WRAP_UP" THEN TRUE ELSE ended

\* EndedOnResponse with the assignment of line 139 left out
EndedOnResponse_Kept(ended, strategy_decision) == ended

\* EndedOnResponse with the flag assigned the outcome of the test of line 138
EndedOnResponse_Assigned(ended, strategy_decision) == strategy_decision.goal = "WRAP_UP"

\* lines 138-139: conversationEnded after them
EndedOnResponse(ended, strategy_decision) ==
  IF strategy_decision.goal = "WRAP_UP" THEN TRUE ELSE ended

\* NoResponse with the test of line 111 left out
NoResponse_Never(response) == FALSE

\* line 111: "if not response"
NoResponse(response) == response = ""

\* BlockedResponse with the candidate let through
BlockedResponse_Kept(response) == response

\* line 126: the response after a failed validation
BlockedResponse(response) == SafeFallback

\* lines 227-234 of _generate_reasoning_notes
CleanReasoning(content) ==
  LET reasoning == Strip(content) IN
    IF reasoning # << >> /\ Head(reasoning) = "\"" /\ reasoning[Len(reasoning)] = "\""
      THEN SubSeq(reasoning, 2, Len(reasoning) - 1)
      ELSE reasoning

\* _generate_reasoning_notes: the text, or None when anything raised
_generate_reasoning_notes(sess, intelligence_dict, nreply) ==
  IF nreply.kind = "raise" THEN None ELSE Str(CleanReasoning(nreply.content))

\* _generate_fallback_notes: the parts of the summary, in the code's order
FallbackParts(sess, intelligence_dict) ==
  (IF sess.finalDecisionReason # "" THEN << "Scam detected" >> ELSE << >>)
    \o (IF intelligence_dict.bankAccounts # << >> THEN << "bankAccounts" >> ELSE << >>)
    \o (IF intelligence_dict.phoneNumbers # << >> THEN << "phoneNumbers" >> ELSE << >>)
    \o (IF intelligence_dict.upiIds # << >> THEN << "upiIds" >> ELSE << >>)
    \o (IF intelligence_dict.phishingLinks # << >> THEN << "phishingLinks" >> ELSE << >>)

\* line 252: ', '.join(...) raises TypeError on a list that holds an item that
\* is not a string.  The answers of the model hold numbers among the bank
\* accounts only, and the phones of an answer went through str().
JoinRaises(intelligence_dict) ==
  \E i \in 1..Len(intelligence_dict.bankAccounts) : ~IsStr(intelligence_dict.bankAccounts[i])

\* what a call of the note generation leaves: the session after it, and
\* whether an exception left the call
Done(sess) == [raised |-> FALSE, sess |-> sess]
Raised(sess) == [raised |-> TRUE, sess |-> sess]

_generate_fallback_notes(sess, intelligence_dict) ==
  LET notes == FallbackParts(sess, intelligence_dict) IN
    IF JoinRaises(intelligence_dict) THEN Raised(sess)
    ELSE IF notes # << >> THEN Done(add_agent_note(sess, Note("fallback", << >>, notes, "")))
    ELSE Done(sess)

\* _add_intelligence_notes: the session after it; the fallback is called
\* outside the try of lines 192-201
_add_intelligence_notes(groq_client, sess, intelligence, nreply) ==
  LET reasoning_note == _generate_reasoning_notes(sess, intelligence, nreply) IN
    IF groq_client /\ reasoning_note.tag = "Str" /\ reasoning_note.text # << >>
      THEN Done(add_agent_note(sess, Note("llm", reasoning_note.text, << >>, "")))
      ELSE _generate_fallback_notes(sess, intelligence)

\* Flow with the persona agent called before the strategy agent
Flow_PersonaFirst(pc, strategy_decision, response) ==
  CASE pc = "extract" -> "update"
    [] pc = "update" -> "persona"
    [] pc = "persona" -> IF NoResponse(response) THEN "returned" ELSE "strategy"
    [] pc = "strategy" -> IF Declines(strategy_decision) THEN "returned" ELSE "safety"
    [] pc = "safety" -> "notes"
    [] pc = "notes" -> "finish"
    [] pc = "finish" -> "returned"

\* Flow with the session updated only in the turns that go on to
\* Response-Generation, after the decision
Flow_UpdateOnEngage(pc, strategy_decision, response) ==
  CASE pc = "extract" -> "strategy"
    [] pc = "strategy" -> IF Declines(strategy_decision) THEN "returned" ELSE "update"
    [] pc = "update" -> "persona"
    [] pc = "persona" -> IF NoResponse(response) THEN "returned" ELSE "safety"
    [] pc = "safety" -> "notes"
    [] pc = "notes" -> "finish"
    [] pc = "finish" -> "returned"

\* The control flow of process_message: the step that follows step pc, given
\* the strategy decision and the text Response-Generation produced.
Flow(pc, strategy_decision, response) ==
  CASE pc = "extract" -> "update"
    [] pc = "update" -> "strategy"
    [] pc = "strategy" -> IF Declines(strategy_decision) THEN "returned" ELSE "persona"
    [] pc = "persona" -> IF NoResponse(response) THEN "returned" ELSE "safety"
    [] pc = "safety" -> "notes"
    [] pc = "notes" -> "finish"
    [] pc = "finish" -> "returned"

\* ------------------------------------------- process_message, step by step

PipeInit(sessions) ==
  /\ active = sessions
  /\ session \in [Sessions -> { NewSession(r) : r \in Reasons }]
  /\ \A s \in Sessions \ sessions : session[s] = NewSession("")
  /\ turn = [s \in Sessions |-> NewTurn(0)]

\* A message arrives for session s: process_message(message, session) is called.
Receive(s, m) ==
  /\ s \in active
  /\ turn[s].pc \in { "idle", "returned", "raised" }
  /\ turn[s].count < MaxTurns
  /\ turn' = [turn EXCEPT ![s] =
       [NewTurn(turn[s].count + 1) EXCEPT
          !.pc = "extract", !.message = m,
          !.endedBefore = session[s].conversationEnded,
          !.before = session[s],
          !.notesBefore = Len(session[s].agentNotes)]]
  /\ UNCHANGED << fb, aggClient, orchClient, aggVars, active, session >>

\* The call of line 159 as the orchestrator sees it.  The regex method runs
\* outside the try of extract_intelligence (line 64): when it raises (fault),
\* the exception leaves extract_intelligence.
Faulted(out, fault) ==
  IF fault /\ out.regexRan THEN Outcome(TRUE, None, out.requests, TRUE) ELSE out

AggregatorCall(groq_client, message, conversation_history, reply, fault) ==
  Faulted(extract_intelligence(groq_client, message, conversation_history, reply), fault)

\* lines 51-60: a client is configured and the external method yields nothing
\* (the request raised, or the answer is no JSON object)
ExternalYieldsNothing(groq_client, message, conversation_history, reply) ==
  groq_client /\ ~Truthy(_llm_extract_intelligence(message, conversation_history, reply))

\* STEP 1, line 70
ExtractStage(s, reply, fault) ==
  /\ turn[s].pc = "extract"
  /\ LET out == AggregatorCall(aggClient, turn[s].message,
                               session[s].conversationHistory, reply, fault)
     IN turn' = [turn EXCEPT ![s].pc = Flow("extract", turn[s].strategy_decision, turn[s].response),
                             ![s].intelligence = _extract_intelligence_parallel(out),
                             ![s].requests = @ + out.requests,
                             ![s].regexRan = out.regexRan,
                             ![s].extractionRaised = out.raised,
                             ![s].externalFailed =
                               ExternalYieldsNothing(aggClient, turn[s].message,
                                                     session[s].conversationHistory, reply),
                             ![s].stages = Append(@, "Extraction")]
  /\ UNCHANGED << fb, aggClient, orchClient, aggVars, active, session >>

\* lines 73-77
UpdateStage(s) ==
  /\ turn[s].pc = "update"
  /\ session' = [session EXCEPT ![s] =
       update_session(@, turn[s].message, turn[s].intelligence)]
  /\ turn' = [turn EXCEPT ![s].pc = Flow("update", turn[s].strategy_decision, turn[s].response),
                          ![s].updates = @ + 1]
  /\ UNCHANGED << fb, aggClient, orchClient, aggVars, active >>

\* STEP 2, lines 84-98: the decision, and the return when it declines
StrategyStage(s, d) ==
  /\ turn[s].pc = "strategy"
  /\ session' = IF Declines(d)
                  THEN [session EXCEPT ![s].conversationEnded = EndedOnDecline(@, d)]
                  ELSE session
  /\ turn' = [turn EXCEPT ![s].pc = Flow("strategy", d, turn[s].response),
                          ![s].strategy_decision = d,
                          ![s].ret = None,
                          ![s].stages = Append(@, "Strategy")]
  /\ UNCHANGED << fb, aggClient, orchClient, aggVars, active >>

\* STEP 3, lines 105-112: the candidate, and the return when there is none
PersonaStage(s, r) ==
  /\ turn[s].pc = "persona"
  /\ turn' = [turn EXCEPT ![s].pc = Flow("persona", turn[s].strategy_decision, r),
                          ![s].candidate = r,
                          ![s].response = r,
                          ![s].ret = None,
                          ![s].stages = Append(@, "Response-Generation")]
  /\ UNCHANGED << fb, aggClient, orchClient, aggVars, active, session >>

\* STEP 4, lines 119-130
SafetyStage(s) ==
  /\ turn[s].pc = "safety"
  /\ LET v == validate_response(turn[s].response) IN
       /\ turn' = [turn EXCEPT ![s].pc = Flow("safety", turn[s].strategy_decision, turn[s].response),
                               ![s].is_valid = v.is_valid,
                               ![s].response = IF v.is_valid THEN @ ELSE BlockedResponse(@),
                               ![s].stages = Append(@, "Safety-Gate")]
       /\ session' = IF v.is_valid THEN session
                     ELSE [session EXCEPT ![s] =
                             add_agent_note(@, Note("safety", << >>, << >>, v.error))]
  /\ UNCHANGED << fb, aggClient, orchClient, aggVars, active >>

\* line 133; an exception of the note generation leaves process_message
NotesStage(s, nreply) ==
  /\ turn[s].pc = "notes"
  /\ LET after == _add_intelligence_notes(orchClient, session[s], turn[s].intelligence, nreply)
     IN /\ session' = [session EXCEPT ![s] = after.sess]
        /\ turn' = [turn EXCEPT
             ![s].pc = IF after.raised THEN "raised"
                       ELSE Flow("notes", turn[s].strategy_decision, turn[s].response),
             ![s].noteRequests = @ + (IF orchClient THEN 1 ELSE 0),
             ![s].nreply = nreply]
  /\ UNCHANGED << fb, aggClient, orchClient, aggVars, active >>

\* FinishStage with the flag kept in the shared orchestrator instance: every
\* session it serves is marked as ended
FinishStage_Shared(s) ==
  /\ turn[s].pc = "finish"
  /\ session' = [x \in Sessions |->
       IF x \in active
         THEN [session[x] EXCEPT !.conversationEnded =
                 EndedOnResponse(@, turn[s].strategy_decision)]
         ELSE session[x]]
  /\ turn' = [turn EXCEPT ![s].pc = Flow("finish", turn[s].strategy_decision, turn[s].response),
                          ![s].ret = Str(turn[s].response)]
  /\ UNCHANGED << fb, aggClient, orchClient, aggVars, active >>

\* lines 135-142
FinishStage(s) ==
  /\ turn[s].pc = "finish"
  /\ session' = [session EXCEPT ![s].conversationEnded =
       EndedOnResponse(@, turn[s].strategy_decision)]
  /\ turn' = [turn EXCEPT ![s].pc = Flow("finish", turn[s].strategy_decision, turn[s].response),
                          ![s].ret = Str(turn[s].response)]
  /\ UNCHANGED << fb, aggClient, orchClient, aggVars, active >>

Init ==
  /\ aggClient \in BOOLEAN
  /\ orchClient \in BOOLEAN
  /\ fb = NoFallbackCall
  /\ AggInit
  /\ PipeInit({ "A" })

Next ==
  \E s \in Sessions :
    \/ \E m \in TurnMessages : Receive(s, m)
    \/ \E reply \in TurnReplies, fault \in BOOLEAN : ExtractStage(s, reply, fault)
    \/ UpdateStage(s)
    \/ \E d \in TurnDecisions : StrategyStage(s, d)
    \/ \E r \in PersonaReplies : PersonaStage(s, r)
    \/ SafetyStage(s)
    \/ \E nreply \in NoteReplies : NotesStage(s, nreply)
    \/ FinishStage(s)

Spec == Init /\ [][Next]_vars

\* ------------------------------- two conversations, one orchestrator

\* what the turns of two interleaved conversations draw from
TwoMessages == { Message(TextBankRaw) }
TwoReplies == { [kind |-> "raise"] }
TwoDecisions ==
  { [goal |-> "CONTINUE", should_engage |-> TRUE],
    [goal |-> "WRAP_UP", should_engage |-> TRUE],
    [goal |-> "WRAP_UP", should_engage |-> FALSE] }
TwoPersonaReplies == { CandidateBad }
TwoNoteReplies ==
  { [kind |-> "raise", content |-> << >>],
    [kind |-> "content", content |-> << "S" >>] }

\* the global orchestrator and aggregator instances (lines 269-270) serve
\* both sessions
TwoInit ==
  /\ aggClient = FALSE
  /\ orchClient = TRUE
  /\ fb = NoFallbackCall
  /\ AggInit
  /\ PipeInit({ "A", "B" })
  /\ \A s \in Sessions : session[s].finalDecisionReason # ""

\* the stages of the two turns interleave in any order
TwoNext ==
  \E s \in Sessions :
    \/ \E m \in TwoMessages : Receive(s, m)
    \/ \E reply \in TwoReplies : ExtractStage(s, reply, FALSE)
    \/ UpdateStage(s)
    \/ \E d \in TwoDecisions : StrategyStage(s, d)
    \/ \E r \in TwoPersonaReplies : PersonaStage(s, r)
    \/ SafetyStage(s)
    \/ \E nreply \in TwoNoteReplies : NotesStage(s, nreply)
    \/ FinishStage(s)

TwoSpec == TwoInit /\ [][TwoNext]_vars

\* ---------------------------------- the aggregator over one conversation

\* InputsAfterCall with line 74 extending the history list in place
InputsAfterCall_Extended(groq_client, message, conversation_history) ==
  [message |-> message,
   conversation_history |->
     IF groq_client THEN Append(conversation_history, message) ELSE conversation_history]

\* The two arguments as an extract_intelligence call leaves them.  Line 74
\* builds the list of the prompt with +, which makes a new list; lines 133-204
\* read message.text and iterate over the history; nothing is assigned to an
\* argument or to a field of a message.
InputsAfterCall(groq_client, message, conversation_history) ==
  [message |-> message, conversation_history |-> conversation_history]

\* extract_intelligence(message, history) is called on the next message
Extract(m, reply) ==
  /\ xpc = "idle"
  /\ Len(convHistory) <= MaxHistory
  /\ curMessage' = InputsAfterCall(aggClient, m, convHistory).message
  /\ convHistory' = InputsAfterCall(aggClient, m, convHistory).conversation_history
  /\ llmReply' = reply
  /\ prevExtracted' = extracted
  /\ prevReply' = NoReply
  /\ extracted' = extract_intelligence(aggClient, m, convHistory, reply)
  /\ xpc' = "extracted"
  /\ UNCHANGED << fb, aggClient, orchClient, pipeVars >>

\* the caller appends the message to the history (orchestrator lines 73-77)
Append_message ==
  /\ xpc = "extracted"
  /\ Len(convHistory) < MaxHistory
  /\ convHistory' = Append(convHistory, curMessage)
  /\ xpc' = "idle"
  /\ UNCHANGED << fb, aggClient, orchClient, curMessage, llmReply, extracted, prevExtracted,
                  prevReply, pipeVars >>

ExtractInit ==
  /\ aggClient \in BOOLEAN
  /\ orchClient = FALSE
  /\ fb = NoFallbackCall
  /\ AggInit
  /\ PipeInit({})
  /\ session = [s \in Sessions |-> NewSession("")]

ExtractNext ==
  \/ \E m \in Messages, reply \in LLMReplies : Extract(m, reply)
  \/ Append_message

ExtractSpec == ExtractInit /\ [][ExtractNext]_vars

\* ------------------------------- one number written in several shapes

\* a second subscriber number, one that starts with the digits of the
\* country code
Mobile2 == << "9", "1", "2", "3", "4", "5", "6", "7", "8", "9" >>

\* a message that holds all four shapes of the first number, and one that
\* holds two shapes of the second number next to a landline-like value
TextAllShapes ==
  MkText(<< >>, << >>, << PhonePlus, PhoneCC, PhoneTrunk, PhoneBare >>, << >>, << "call" >>)
TextOther ==
  MkText(<< >>, << >>,
         << Mobile2, << "0", " " >> \o Mobile2, << "9", "1", "." >> \o Mobile2, PhoneLandline >>,
         << >>, << "call" >>)

PhoneMessages ==
  { Message(TextPlus), Message(TextLink), Message(TextBankSep), Message(TextBankRaw),
    Message(TextAllShapes), Message(TextOther) }

\* the regex method is the one that runs: the external request raises
PhoneReplies == { [kind |-> "raise"] }

PhoneNext ==
  \/ \E m \in PhoneMessages, reply \in PhoneReplies : Extract(m, reply)
  \/ Append_message

PhoneSpec == ExtractInit /\ [][PhoneNext]_vars

\* ------------------------------------------- extraction run a second time

\* what the external service does in the calls of a repeated extraction
RerunReplies ==
  { [kind |-> "raise"] }
    \cup { [kind |-> "content", content |-> c] :
             c \in { << Tok("prose") >>, ArrayText, Bare(ObjFull), Bare(ObjDup) } }

\* extract_intelligence is called again on the same message, the history
\* unchanged
Reextract(reply) ==
  /\ xpc = "extracted"
  /\ llmReply' = reply
  /\ prevExtracted' = extracted
  /\ prevReply' = llmReply
  /\ extracted' = extract_intelligence(aggClient, curMessage, convHistory, reply)
  /\ curMessage' = InputsAfterCall(aggClient, curMessage, convHistory).message
  /\ convHistory' = InputsAfterCall(aggClient, curMessage, convHistory).conversation_history
  /\ UNCHANGED << fb, aggClient, orchClient, xpc, pipeVars >>

RerunNext ==
  \/ \E m \in Messages, reply \in RerunReplies : Extract(m, reply)
  \/ Append_message
  \/ \E reply \in RerunReplies : Reextract(reply)

RerunSpec == ExtractInit /\ [][RerunNext]_vars

\* ------------------------------------------ FallbackResponses.get_response

UpperLetters ==
  << "A", "B", "C", "D", "E", "F", "G", "H", "I", "J", "K", "L", "M",
     "N", "O", "P", "Q", "R", "S", "T", "U", "V", "W", "X", "Y", "Z" >>
LowerLetters ==
  << "a", "b", "c", "d", "e", "f", "g", "h", "i", "j", "k", "l", "m",
     "n", "o", "p", "q", "r", "s", "t", "u", "v", "w", "x", "y", "z" >>

\* str.lower() of a text given character by character
LowerCase(s) ==
  [i \in 1..Len(s) |->
     IF \E k \in 1..26 : UpperLetters[k] = s[i]
       THEN LowerLetters[CHOOSE k \in 1..26 : UpperLetters[k] = s[i]]
       ELSE s[i]]

\* "sub in s" for two strings
Contains(s, sub) ==
  \E i \in 0..(Len(s) - Len(sub)) : SubSeq(s, i + 1, i + Len(sub)) = sub

\* the keywords get_response looks for
KwUpi == << "u", "p", "i" >>
KwUpiId == << "u", "p", "i", " ", "i", "d" >>
KwLink == << "l", "i", "n", "k" >>
KwClick == << "c", "l", "i", "c", "k" >>
KwVerify == << "v", "e", "r", "i", "f", "y" >>
KwUrgent == << "u", "r", "g", "e", "n", "t" >>
KwImmediately == << "i", "m", "m", "e", "d", "i", "a", "t", "e", "l", "y" >>
KwBlocked == << "b", "l", "o", "c", "k", "e", "d" >>
KwSuspended == << "s", "u", "s", "p", "e", "n", "d", "e", "d" >>

\* lines 234-265: the sentence for a goal and the lower-cased text
Respond(goal, text_lower) ==
  IF goal = "CLARIFY" THEN
    IF Contains(text_lower, KwUpi) \/ Contains(text_lower, KwUpiId)
      THEN "I'm not comfortable sharing my UPI ID. Is there another way to verify?"
    ELSE IF Contains(text_lower, KwLink) \/ Contains(text_lower, KwClick)
      THEN "I'm not sure about clicking links. Can you tell me more about this?"
    ELSE IF Contains(text_lower, KwVerify)
      THEN "How do I verify? Can you explain the process step by step?"
    ELSE "I see. Can you provide more details about this?"
  ELSE IF goal = "DELAY" THEN
    IF Contains(text_lower, KwUrgent) \/ Contains(text_lower, KwImmediately)
      THEN "I'm at work right now. Can you explain what I need to do? I need a few minutes to understand this."
    ELSE "I need to check something first. Can you give me more information about this?"
  ELSE IF goal = "ESCALATE" THEN
    IF Contains(text_lower, KwBlocked) \/ Contains(text_lower, KwSuspended)
      THEN "This is really worrying. What exactly do I need to do to prevent this? I want to fix this immediately."
    ELSE "I'm concerned about this. What should I do next?"
  ELSE IF goal = "CONTINUE" THEN
    IF Contains(text_lower, KwBlocked) \/ Contains(text_lower, KwSuspended)
      THEN "Why is my account being blocked? What did I do wrong?"
    ELSE IF Contains(text_lower, KwVerify)
      THEN "How do I verify? Can you explain the process?"
    ELSE "I see. Can you provide more details about this?"
  ELSE "I'll check with my bank directly. Thanks for letting me know."

\* get_response with the text matched as it was written
get_response_NoLower(goal, message_text) == Respond(goal, message_text)

\* FallbackResponses.get_response(goal, message_text)
get_response(goal, message_text) == Respond(goal, LowerCase(message_text))

\* the words the texts given to get_response are made of
FallbackWords ==
  { << >>,
    << "h", "i" >>,
    << "U", "P", "I" >>,
    << "s", "t", "u", "p", "i", "d" >>,
    << "C", "l", "i", "c", "k" >>,
    << "l", "i", "n", "k", "s" >>,
    << "V", "E", "R", "I", "F", "Y" >>,
    << "U", "r", "g", "e", "n", "t" >>,
    << "I", "m", "m", "e", "d", "i", "a", "t", "e", "l", "y" >>,
    << "b", "l", "o", "c", "k", "e", "d" >>,
    << "S", "u", "s", "p", "e", "n", "d", "e", "d" >> }

\* two words with a space between them
TwoWords(first, second) ==
  IF first = << >> THEN second
  ELSE IF second = << >> THEN first
  ELSE first \o << " " >> \o second

FallbackTexts == { TwoWords(first, second) : first \in FallbackWords, second \in FallbackWords }

\* get_response(goal, message_text) is called
GetResponse(goal, message_text) ==
  /\ fb' = [pc |-> "called", goal |-> goal, message_text |-> message_text,
            ret |-> get_response(goal, message_text)]
  /\ UNCHANGED << aggClient, orchClient, aggVars, pipeVars >>

FallbackInit ==
  /\ aggClient = FALSE
  /\ orchClient = FALSE
  /\ fb = NoFallbackCall
  /\ AggInit
  /\ PipeInit({})
  /\ session = [s \in Sessions |-> NewSession("")]

FallbackNext == \E goal \in Goals, message_text \in FallbackTexts : GetResponse(goal, message_text)

FallbackSpec == FallbackInit /\ [][FallbackNext]_vars

\* ------------------------------------------------------------ properties

\* a process_message call for session s has returned
Returned(s) == turn[s].pc = "returned"

Ran(s, stage) == stage \in Range(turn[s].stages)

\* the notes the current turn of session s has appended
TurnNotes(s) ==
  SubSeq(session[s].agentNotes, turn[s].notesBefore + 1, Len(session[s].agentNotes))

NotesOfKind(s, kind) == SelectSeq(TurnNotes(s), LAMBDA n : n.kind = kind)

\* C1: a turn in which Strategy returns shouldEngage=false with goal=WRAP_UP
\* returns None and leaves conversationEnded true, whatever was extracted.
C1_DeclineWrapUpEnds ==
  \A s \in Sessions :
    (/\ Returned(s)
     /\ ~turn[s].strategy_decision.should_engage
     /\ turn[s].strategy_decision.goal = "WRAP_UP")
    => (turn[s].ret = None /\ session[s].conversationEnded)

\* such a turn has ended, on a session that was not ended before, with
\* artifacts extracted
C1_Witness ==
  \E s \in Sessions :
    /\ Returned(s)
    /\ turn[s].strategy_decision = [goal |-> "WRAP_UP", should_engage |-> FALSE]
    /\ ~turn[s].endedBefore
    /\ turn[s].intelligence.bankAccounts # << >>
    /\ turn[s].ret = None
    /\ session[s].conversationEnded

WrapUpEngaged(s) ==
  /\ Returned(s)
  /\ turn[s].strategy_decision = [goal |-> "WRAP_UP", should_engage |-> TRUE]

\* C2 as claimed: in a turn where Strategy returns goal=WRAP_UP with
\* shouldEngage=true, Response-Generation and Safety-Gate both run; with empty
\* generated text the turn returns None and conversationEnded keeps its value,
\* and with a response returned (the candidate or the safety fallback
\* sentence) conversationEnded is true.
C2_Original ==
  \A s \in Sessions :
    WrapUpEngaged(s) =>
      /\ Ran(s, "Response-Generation")
      /\ Ran(s, "Safety-Gate")
      /\ turn[s].candidate = "" =>
           (turn[s].ret = None /\ session[s].conversationEnded = turn[s].endedBefore)
      /\ turn[s].ret # None =>
           (/\ turn[s].ret \in { Str(turn[s].candidate), Str(SafeFallback) }
            /\ session[s].conversationEnded)

\* the turn is over, by a return or by an exception, and Strategy had
\* returned goal=WRAP_UP with shouldEngage=true
WrapUpEngagedOver(s) ==
  /\ turn[s].pc \in { "returned", "raised" }
  /\ turn[s].strategy_decision = [goal |-> "WRAP_UP", should_engage |-> TRUE]

\* C2, amended: in such a turn Response-Generation runs, and Safety-Gate runs
\* exactly when the generated text is not empty; the turn sets
\* conversationEnded to true if and only if it returns a response: with empty
\* text it returns None and conversationEnded keeps its value, with a
\* response returned (the candidate or the safety fallback sentence)
\* conversationEnded is true, and a turn that returns nothing leaves
\* conversationEnded as it was.
C2_WrapUpEngagedEndsOnResponse ==
  \A s \in Sessions :
    WrapUpEngagedOver(s) =>
      /\ Ran(s, "Response-Generation")
      /\ Ran(s, "Safety-Gate") <=> turn[s].candidate # ""
      /\ turn[s].candidate = "" =>
           (turn[s].ret = None /\ session[s].conversationEnded = turn[s].endedBefore)
      /\ turn[s].ret # None =>
           (/\ turn[s].ret \in { Str(turn[s].candidate), Str(SafeFallback) }
            /\ session[s].conversationEnded)
      /\ turn[s].ret = None =>
           session[s].conversationEnded = turn[s].endedBefore

\* a closing message was delivered and ended a conversation that was open
C2_Witness ==
  \E s \in Sessions :
    /\ WrapUpEngaged(s)
    /\ turn[s].ret = Str(CandidateOk)
    /\ ~turn[s].endedBefore
    /\ session[s].conversationEnded

\* C3: within a turn the stages that have run are a prefix of the order
\* Extraction, Strategy, Response-Generation, Safety-Gate: none runs twice
\* and none runs before its predecessor, so Strategy has decided before
\* Response-Generation is invoked.
C3_StagesInOrder ==
  \A s \in Sessions :
    /\ Len(turn[s].stages) <= Len(StageOrder)
    /\ turn[s].stages = SubSeq(StageOrder, 1, Len(turn[s].stages))

\* a turn in which all four stages ran
C3_Witness ==
  \E s \in Sessions : Returned(s) /\ turn[s].stages = StageOrder

\* C4 as claimed: when the Safety-Gate reports a violation the turn returns
\* the fixed sentence, not the candidate, and appends exactly one note that
\* documents the reason of the violation.
C4_ViolationReplaced ==
  \A s \in Sessions :
    (turn[s].pc \in { "returned", "raised" } /\ Ran(s, "Safety-Gate") /\ ~turn[s].is_valid) =>
      /\ turn[s].ret = Str(SafeFallback)
      /\ turn[s].ret # Str(turn[s].candidate)
      /\ Len(NotesOfKind(s, "safety")) = 1
      /\ NotesOfKind(s, "safety")[1].error = validate_response(turn[s].candidate).error

\* what holds of every turn in which the Safety-Gate reported a violation:
\* the one note is appended, and a turn that returns, returns the sentence
C4_ViolationNoted ==
  \A s \in Sessions :
    (turn[s].pc \in { "returned", "raised" } /\ Ran(s, "Safety-Gate") /\ ~turn[s].is_valid) =>
      /\ Returned(s) => turn[s].ret = Str(SafeFallback)
      /\ Len(NotesOfKind(s, "safety")) = 1
      /\ NotesOfKind(s, "safety")[1].error = validate_response(turn[s].candidate).error

\* a denylisted candidate was generated and the turn returned
C4_Witness ==
  \E s \in Sessions :
    /\ Returned(s)
    /\ turn[s].candidate = CandidateBad
    /\ ~turn[s].is_valid
    /\ turn[s].ret = Str(SafeFallback)
    /\ Len(TurnNotes(s)) = 2

\* --------------------------------------------- properties of the aggregator

\* the last extract_intelligence call has returned and its message is not yet
\* part of the history: convHistory is the history the call was given
Called == xpc = "extracted"

\* the answer holds no JSON object at all (prose, a JSON array, nothing)
NoObjectIn(content) == \A i \in 1..Len(content) : content[i].t # "members"

\* the JSON object an answer holds
ObjectIn(content) ==
  content[CHOOSE i \in 1..Len(content) : content[i].t = "members"].obj

\* the external method failed: the request raised, or the answer holds no
\* JSON object
ExternalFailed == llmReply.kind = "raise" \/ NoObjectIn(llmReply.content)

LocalResult == _regex_extract_intelligence(curMessage, convHistory)

\* C5: extract_intelligence returns the result of the regex method when no
\* client is configured, when the external call raises, and when the answer
\* cannot be parsed as a JSON object.
C5_FallsBackToLocal ==
  (Called /\ (~aggClient \/ ExternalFailed)) =>
    /\ ~extracted.raised
    /\ extracted.regexRan
    /\ extracted.value = LocalResult

\* a client is configured, the answer is prose, and the regex method found
\* artifacts in the history
C5_Witness ==
  /\ Called /\ aggClient
  /\ llmReply.kind = "content" /\ llmReply.content = << Tok("prose") >>
  /\ curMessage = Message(TextHello)
  /\ extracted.value.bankAccounts # << >>

\* the answer is a well-formed object whose five collections are all empty
EmptyAnswer ==
  /\ llmReply.kind = "content"
  /\ llmReply.content \in { Bare(ObjEmpty), Fenced(ObjEmpty) }

\* C6 as claimed: when the external method answers with five empty
\* collections, extract_intelligence falls back to the regex method and
\* returns its result.
C6_EmptyAnswerFallsBack ==
  (Called /\ aggClient /\ EmptyAnswer) => extracted.value = LocalResult

\* the external method yields a non-empty artifact set
ExternalYields ==
  /\ aggClient
  /\ llmReply.kind = "content"
  /\ LET r == _llm_extract_intelligence(curMessage, convHistory, llmReply)
     IN r.tag = "Intel" /\ \E c \in Classes : r[c] # << >>

\* the collection of class c as the answer gives it
AsGiven(c) == DictGet(ObjectIn(llmReply.content), c).items

\* C7 as claimed: when the external method yields a non-empty artifact set,
\* the five collections returned are those of the external response as given,
\* and the regex method is not run.
C7_Original ==
  (Called /\ ExternalYields) =>
    /\ ~extracted.regexRan
    /\ \A c \in Classes : extracted.value[c] = AsGiven(c)

\* C7, amended: when the external method yields a non-empty artifact set, the
\* regex method is not run, the phone numbers returned are those of the
\* response with surrounding whitespace removed, and the other four
\* collections are those of the response as given.
C7_ExternalReturned ==
  (Called /\ ExternalYields) =>
    /\ ~extracted.regexRan
    /\ extracted.requests = 1
    /\ \A c \in Classes \ { "phoneNumbers" } : extracted.value[c] = AsGiven(c)
    /\ extracted.value.phoneNumbers =
         [i \in 1..Len(AsGiven("phoneNumbers")) |-> Strip(AsGiven("phoneNumbers")[i])]

\* the external answer was returned although the regex method would have
\* found other artifacts
C7_Witness ==
  /\ Called /\ ExternalYields
  /\ llmReply.content = InProse(ObjFull)
  /\ extracted.value.phoneNumbers = << PhoneCanonical >>
  /\ extracted.value # LocalResult
  /\ LocalResult.phishingLinks # << >>

\* C8: no failure of the external method leaves extract_intelligence: when
\* the request raises, the answer is malformed or not an object, or the
\* result is empty, the call returns an artifact set.
C8_NeverRaises ==
  (Called /\ aggClient /\ (ExternalFailed \/ EmptyAnswer)) =>
    (~extracted.raised /\ extracted.value.tag = "Intel")

\* the request raised and the call returned an artifact set
C8_Witness ==
  /\ Called /\ aggClient
  /\ llmReply.kind = "raise"
  /\ ~extracted.raised
  /\ extracted.value.tag = "Intel"
  /\ extracted.value.upiIds # << >>

\* what the matcher of class c finds in a text, normalized
Found(c, text) ==
  CASE c = "bankAccounts" ->
         { StripSeparators(m) : m \in Range(BANK_ACCOUNT_findall(text)) }
    [] c = "phoneNumbers" ->
         UNION { Range(FormatPhone(m)) : m \in Range(PHONE_NUMBER_findall(text)) }
    [] c = "upiIds" -> Range(UPI_ID_findall(text))
    [] c = "phishingLinks" -> Range(URL_findall(text))
    [] c = "suspiciousKeywords" ->
         { k \in Range(SUSPICIOUS_KEYWORDS) : KeywordIn(k, Lower(text.words)) }

\* C9 as claimed: on the regex method, for each of the five classes, what the
\* class's matcher finds in any message of the history is in the artifact set
\* returned.
C9_HistoryCovered ==
  (Called /\ extracted.regexRan) =>
    \A i \in 1..Len(convHistory) : \A c \in Classes :
      Found(c, convHistory[i].text) \subseteq Range(extracted.value[c])

\* C10 as claimed, on the conversations where no client is configured (every
\* turn uses the regex method): from one turn to the next, the history being
\* the previous history with the previous message appended, no collection of
\* the artifact set gets smaller.
C10_SizesNonDecreasing ==
  (Called /\ ~aggClient /\ prevExtracted.value.tag = "Intel") =>
    \A c \in Classes : Len(prevExtracted.value[c]) <= Len(extracted.value[c])

\* ------------------------------------------- properties of a repeated call

\* the last call repeated the call before it
Rerun == Called /\ prevReply # NoReply

\* the external method failed in a call where the service did r
FailedIn(r) == r.kind = "raise" \/ NoObjectIn(r.content)

\* the two artifact sets are set-equal in each of the five collections
SetEqual(a, b) == \A c \in Classes : Range(a[c]) = Range(b[c])

\* C11 as claimed: running extraction twice with the same current message and
\* the same unchanged history yields artifact sets that are set-equal in each
\* of the five collections.
C11_Original ==
  Rerun => SetEqual(prevExtracted.value, extracted.value)

\* C11, amended: the two runs yield set-equal artifact sets when no client is
\* configured, when the external method fails in both runs (in whatever way),
\* and when the external service gives the same answer in both runs.
C11_RerunSetEqual ==
  (Rerun /\ (\/ ~aggClient
             \/ FailedIn(prevReply) /\ FailedIn(llmReply)
             \/ prevReply = llmReply)) =>
    /\ ~prevExtracted.raised /\ ~extracted.raised
    /\ SetEqual(prevExtracted.value, extracted.value)

\* with a client configured the request raised in the first run and was
\* answered with a JSON array in the second; both runs returned the artifacts
\* of the history
C11_Witness ==
  /\ Rerun /\ aggClient
  /\ prevReply.kind = "raise"
  /\ llmReply.kind = "content" /\ llmReply.content = ArrayText
  /\ convHistory # << >>
  /\ extracted.value.bankAccounts # << >>
  /\ SetEqual(prevExtracted.value, extracted.value)

\* ------------------------------------- properties of the returned collections

NoDuplicates(list) ==
  \A i \in 1..Len(list) : \A j \in 1..Len(list) : i # j => list[i] # list[j]

\* C12 as claimed: in every artifact set extract_intelligence returns, on the
\* external path as well as on the regex path, no collection holds the same
\* value twice.
C12_NoDuplicates ==
  Called => \A c \in Classes : NoDuplicates(extracted.value[c])

\* the texts the last call was given: the current message and the history
GivenTexts == { curMessage.text } \cup { convHistory[i].text : i \in 1..Len(convHistory) }

\* the separators the specification names: space, dash, dot
NamedSeparators == { " ", "-", "." }

WithoutSeparators(value) == SelectSeq(value, LAMBDA ch : ch \notin NamedSeparators)

BankMatches == UNION { Range(BANK_ACCOUNT_findall(text)) : text \in GivenTexts }

Occurrences(list, value) == Cardinality({ i \in 1..Len(list) : list[i] = value })

\* C13: on the regex method the bank accounts returned are the matches of the
\* current message and of every history message with space, dash and dot
\* removed and nothing else changed, and each account is returned exactly
\* once however often and in whatever written form it was matched.
C13_BankNormalizedOnce ==
  (Called /\ extracted.regexRan) =>
    LET banks == extracted.value.bankAccounts IN
      /\ Range(banks) = { WithoutSeparators(m) : m \in BankMatches }
      /\ \A m \in BankMatches : Occurrences(banks, WithoutSeparators(m)) = 1

\* the account was written with a dash in the history and without separators
\* in the current message, and is returned once
C13_Witness ==
  /\ Called /\ extracted.regexRan
  /\ curMessage = Message(TextBankRaw)
  /\ \E i \in 1..Len(convHistory) : convHistory[i] = Message(TextBankSep)
  /\ Occurrences(extracted.value.bankAccounts, BankRaw) = 1
  /\ BankSep \notin Range(extracted.value.bankAccounts)
  /\ Len(extracted.value.bankAccounts) = 2

PhoneMatches == UNION { Range(PHONE_NUMBER_findall(text)) : text \in GivenTexts }

\* the classification the specification gives for a phone value whose
\* separators are stripped: the phone numbers it yields
Classified(cleaned) ==
  CASE Len(cleaned) = 13 /\ SubSeq(cleaned, 1, 3) = << "+", "9", "1" >> -> { cleaned }
    [] Len(cleaned) = 12 /\ SubSeq(cleaned, 1, 2) = << "9", "1" >> -> { << "+" >> \o cleaned }
    [] Len(cleaned) = 11 /\ cleaned[1] = "0" ->
         { << "+", "9", "1" >> \o SubSeq(cleaned, 2, 11) }
    [] Len(cleaned) = 10 /\ cleaned[1] \in { "6", "7", "8", "9" } ->
         { << "+", "9", "1" >> \o cleaned }
    [] OTHER -> {}

\* C14: on the regex method the phone numbers returned are exactly what the
\* classification yields for the matches of the current message and of the
\* history messages alike; a value of no shape is dropped and nothing raises.
C14_PhonesClassified ==
  (Called /\ extracted.regexRan) =>
    /\ ~extracted.raised
    /\ Range(extracted.value.phoneNumbers) =
         UNION { Classified(WithoutSeparators(m)) : m \in PhoneMatches }

\* the trunk-prefixed form was matched only in the history, next to a value of
\* no shape, the current message holds a landline-like value, and the one
\* number returned is the canonical form of the trunk-prefixed one
C14_Witness ==
  /\ Called /\ extracted.regexRan
  /\ curMessage = Message(TextLink)
  /\ convHistory = << Message(TextBankSep) >>
  /\ PhoneMatches = { PhoneCC, PhoneLandline, PhoneTrunk, PhoneShort }
  /\ extracted.value.phoneNumbers = << PhoneCanonical >>

\* the canonical international format: +91 and ten more characters
Canonical(phone) == Len(phone) = 13 /\ SubSeq(phone, 1, 3) = << "+", "9", "1" >>

\* C15 as claimed: every phone number extract_intelligence returns is in the
\* canonical format, whether the set came from the external method or from
\* the regex method.
C15_Original ==
  Called => \A i \in 1..Len(extracted.value.phoneNumbers) :
              Canonical(extracted.value.phoneNumbers[i])

\* C15, amended: every phone number the regex method returns is in the
\* canonical format; a phone number the external method returns is the value
\* of the answer without surrounding whitespace, in whatever format.
C15_LocalCanonical ==
  Called =>
    \A i \in 1..Len(extracted.value.phoneNumbers) :
      LET phone == extracted.value.phoneNumbers[i] IN
        IF extracted.regexRan THEN Canonical(phone)
        ELSE phone = Strip(AsGiven("phoneNumbers")[i])

\* the regex method returned a number matched with a trunk prefix
C15_Witness ==
  /\ Called /\ extracted.regexRan
  /\ curMessage = Message(TextBankSep)
  /\ convHistory = << >>
  /\ extracted.value.phoneNumbers = << PhoneCanonical >>

\* ------------------------------------------ properties of the turn's notes

\* the reasoning notes the current turn has appended: the note of the
\* external summarization and the note of the template
ReasoningNotes(s) ==
  SelectSeq(TurnNotes(s), LAMBDA n : n.kind \in { "llm", "fallback" })

\* C16 as claimed: a turn that passed the Safety-Gate and returned has
\* appended exactly one reasoning note, whatever was extracted, whatever
\* finalDecisionReason is and whatever the external summarization did.
C16_OneReasoningNote ==
  \A s \in Sessions :
    (Returned(s) /\ Ran(s, "Safety-Gate")) => Len(ReasoningNotes(s)) = 1

C18_ExtractionFailureContinues ==
  \A s \in Sessions :
    turn[s].extractionRaised =>
      /\ turn[s].intelligence = ExtractedIntelligence
      /\ turn[s].pc # "raised"
      /\ turn[s].pc \notin { "extract", "update" } =>
           /\ turn[s].updates = 1
           /\ session[s].extractedIntelligence = ExtractedIntelligence
           /\ session[s].conversationHistory # << >>
           /\ session[s].conversationHistory[Len(session[s].conversationHistory)]
                = turn[s].message
      /\ turn[s].pc \notin { "extract", "update", "strategy" } => Ran(s, "Strategy")

\* the aggregator raised on a message that holds artifacts, and the turn
\* returned a response
C18_Witness ==
  \E s \in Sessions :
    /\ Returned(s)
    /\ turn[s].extractionRaised
    /\ turn[s].message = Message(TextBankRaw)
    /\ turn[s].stages = StageOrder
    /\ turn[s].ret = Str(CandidateOk)

\* the note generation of the current turn of session s has been called
NotesCalled(s) ==
  \/ turn[s].pc \in { "finish", "raised" }
  \/ Returned(s) /\ Ran(s, "Safety-Gate")

\* the external summarization is unavailable, raised, or returned empty text
SummarizationFailed(s) ==
  \/ ~orchClient
  \/ turn[s].nreply.kind = "raise"
  \/ CleanReasoning(turn[s].nreply.content) = << >>

\* what the template makes of the session and the artifacts of the turn
TemplateNotes(s) ==
  LET parts == FallbackParts(session[s], turn[s].intelligence) IN
    IF parts = << >> THEN << >> ELSE << Note("fallback", << >>, parts, "") >>

\* C20 as claimed: when the external summarization is unavailable, raises or
\* returns empty text, the note generation uses the template instead and no
\* exception leaves the turn; a turn never appends both the note of the
\* external summarization and the note of the template.
C20_TemplateOnFailure ==
  \A s \in Sessions :
    NotesCalled(s) =>
      /\ ~(NotesOfKind(s, "llm") # << >> /\ NotesOfKind(s, "fallback") # << >>)
      /\ SummarizationFailed(s) =>
           /\ turn[s].pc # "raised"
           /\ ReasoningNotes(s) = TemplateNotes(s)

\* ------------------------------------- properties of two conversations

\* The session a turn leaves when process_message runs from beginning to end
\* with nothing in between: from the session before the turn, the message,
\* the artifacts extracted, the decision, the candidate and what the external
\* summarization did.
TurnAlone(groq_client, before, message, intelligence, d, candidate, nreply) ==
  LET updated == update_session(before, message, intelligence) IN
    IF Declines(d) THEN [updated EXCEPT !.conversationEnded = EndedOnDecline(@, d)]
    ELSE IF NoResponse(candidate) THEN updated
    ELSE
      LET v == validate_response(candidate)
          guarded == IF v.is_valid THEN updated
                     ELSE add_agent_note(updated, Note("safety", << >>, << >>, v.error))
          noted == _add_intelligence_notes(groq_client, guarded, intelligence, nreply)
      IN [noted.sess EXCEPT !.conversationEnded = EndedOnResponse(@, d)]

\* the turn of session s has returned and left the session a turn run alone
\* leaves
EndsAsAlone(s) ==
  Returned(s) =>
    session[s] = TurnAlone(orchClient, turn[s].before, turn[s].message, turn[s].intelligence,
                           turn[s].strategy_decision, turn[s].candidate, turn[s].nreply)

\* C19: with the turns of two conversations interleaved in any order, a step
\* of one session's turn changes nothing of the other session (its
\* conversationEnded flag, its notes, any other field), and every turn that
\* returns leaves its session as the same turn run alone would.
C19_SessionsIsolated ==
  [][\A s \in Sessions :
       /\ turn'[s] = turn[s] => session'[s] = session[s]
       /\ EndsAsAlone(s)']_vars

\* both sessions are in the middle of their second turn; one was ended by its
\* first turn and holds a note of the Safety-Gate, the other is open and
\* holds the two notes of its first turn
C19_Witness ==
  /\ active = { "A", "B" }
  /\ turn["A"].count = 2 /\ turn["A"].pc = "finish"
  /\ turn["B"].count = 2 /\ turn["B"].pc = "safety"
  /\ turn["A"].endedBefore /\ ~turn["B"].endedBefore
  /\ Len(session["B"].agentNotes) = 2
  /\ \E i \in 1..Len(session["A"].agentNotes) : session["A"].agentNotes[i].kind = "safety"

\* ---------------------------------------- properties of the template note

\* C21 as claimed: the template note covers each of the five artifact classes
\* together with the stored finalDecisionReason: every class of which the
\* artifact set of the turn holds an artifact is reflected in the note, and so
\* is a reason that is not empty.
C21_TemplateCoversAll ==
  \A s \in Sessions :
    \A i \in 1..Len(NotesOfKind(s, "fallback")) :
      LET note == NotesOfKind(s, "fallback")[i] IN
        /\ session[s].finalDecisionReason # "" => "Scam detected" \in Range(note.parts)
        /\ \A c \in Classes :
             turn[s].intelligence[c] # << >> => c \in Range(note.parts)

\* ------------------------------------- properties of the external requests

\* C22: the external service is called with no retry.  A turn makes at most
\* one extraction request and at most one note request; after a failed
\* extraction request the regex method has run and exactly one request was
\* made; after a failed summarization exactly one request was made and no note
\* of the external summarization was appended; without a client no request is
\* made.
C22_NoRetry ==
  \A s \in Sessions :
    /\ turn[s].requests <= 1
    /\ turn[s].noteRequests <= 1
    /\ ~aggClient => turn[s].requests = 0
    /\ ~orchClient => turn[s].noteRequests = 0
    /\ turn[s].externalFailed => (turn[s].requests = 1 /\ turn[s].regexRan)
    /\ (NotesCalled(s) /\ orchClient /\ SummarizationFailed(s)) =>
         (turn[s].noteRequests = 1 /\ NotesOfKind(s, "llm") = << >>)

\* in the second turn of a session, with both clients configured, the
\* extraction request failed and the summarization request raised: one
\* request each, the regex method ran and the template note was appended
C22_Witness ==
  \E s \in Sessions :
    /\ Returned(s) /\ turn[s].count = 2
    /\ aggClient /\ orchClient
    /\ turn[s].externalFailed /\ turn[s].requests = 1 /\ turn[s].regexRan
    /\ turn[s].nreply.kind = "raise" /\ turn[s].noteRequests = 1
    /\ NotesOfKind(s, "fallback") # << >>

\* ------------------------------------ properties of the answer's wrapping

\* the answer holds a well-formed JSON object with the five named array fields
WellFormedAnswer ==
  /\ llmReply.kind = "content"
  /\ ~NoObjectIn(llmReply.content)
  /\ DOMAIN ObjectIn(llmReply.content) = Classes
  /\ \A c \in Classes : ObjectIn(llmReply.content)[c].tag = "Array"

\* what the call returns when the same object arrives bare
BareResult ==
  extract_intelligence(aggClient, curMessage, convHistory,
                       [kind |-> "content", content |-> Bare(ObjectIn(llmReply.content))]).value

\* C23 as claimed: an answer that holds a well-formed JSON object with the
\* five named array fields is parsed to the same artifact set whether the
\* object arrives bare, wrapped in code-fence markers, or embedded in
\* surrounding text.
C23_SameHoweverWrapped ==
  (Called /\ aggClient /\ WellFormedAnswer) => extracted.value = BareResult

\* --------------------------------------- properties of the fallback response

FallbackKeywords ==
  { KwUpi, KwUpiId, KwLink, KwClick, KwVerify, KwUrgent, KwImmediately, KwBlocked, KwSuspended }

\* which keywords the lower-cased text contains
KeywordsOf(message_text) ==
  { k \in FallbackKeywords : Contains(LowerCase(message_text), k) }

\* C24: get_response returns, for every goal and every text, a non-empty
\* sentence that depends only on the goal and on which keywords the
\* lower-cased text contains (any text with the same keywords gets the same
\* sentence for that goal); for WRAP_UP it is the same closing sentence
\* whatever the text.
C24_FallbackTotal ==
  fb.pc = "called" =>
    /\ fb.ret # ""
    /\ \A other \in FallbackTexts :
         KeywordsOf(other) = KeywordsOf(fb.message_text) =>
           get_response(fb.goal, other) = fb.ret
    /\ fb.goal = "WRAP_UP" =>
         fb.ret = "I'll check with my bank directly. Thanks for letting me know."

\* a text whose only keyword is written in capitals got the sentence of that
\* keyword
C24_Witness ==
  /\ fb.pc = "called"
  /\ fb.goal = "CONTINUE"
  /\ fb.message_text = << "V", "E", "R", "I", "F", "Y" >>
  /\ fb.ret = "How do I verify? Can you explain the process?"

\* ------------------------------------- properties of the session update

\* the turn of session s is over: it returned, or an exception left it
Over(s) == turn[s].pc \in { "returned", "raised" }

\* C25: in every turn, a turn that ends with no outgoing response included,
\* the session is updated with the message and the artifact set of the turn
\* exactly once, after Extraction and before Strategy is invoked.
C25_UpdatedOnceBeforeStrategy ==
  \A s \in Sessions :
    /\ turn[s].updates <= 1
    /\ turn[s].updates = 1 => Ran(s, "Extraction")
    /\ (Ran(s, "Strategy") \/ Over(s)) => turn[s].updates = 1
    /\ turn[s].updates = 1 =>
         /\ session[s].conversationHistory =
              Append(turn[s].before.conversationHistory, turn[s].message)
         /\ session[s].extractedIntelligence = turn[s].intelligence

\* the second turn of a session returned nothing on a declining decision and
\* the session holds both messages and the artifacts of the second turn
C25_Witness ==
  \E s \in Sessions :
    /\ Returned(s) /\ turn[s].count = 2
    /\ ~turn[s].strategy_decision.should_engage
    /\ turn[s].ret = None
    /\ turn[s].updates = 1
    /\ Len(session[s].conversationHistory) = 2
    /\ turn[s].intelligence.bankAccounts # << >>
    /\ session[s].extractedIntelligence = turn[s].intelligence

\* --------------------------------------- properties of the call's inputs

C27_DeclineLeavesAll ==
  \A s \in Sessions :
    (/\ Over(s)
     /\ ~turn[s].strategy_decision.should_engage
     /\ turn[s].strategy_decision.goal # "WRAP_UP") =>
      /\ Returned(s)
      /\ turn[s].ret = None
      /\ session[s].conversationEnded = turn[s].endedBefore
      /\ TurnNotes(s) = << >>
      /\ session[s].agentNotes = turn[s].before.agentNotes
      /\ ~Ran(s, "Response-Generation")
      /\ ~Ran(s, "Safety-Gate")

\* Strategy declined with goal CLARIFY in the first turn of an open session,
\* on a message that holds artifacts
C27_Witness ==
  \E s \in Sessions :
    /\ Returned(s) /\ turn[s].count = 1
    /\ turn[s].strategy_decision = [goal |-> "CLARIFY", should_engage |-> FALSE]
    /\ turn[s].stages = << "Extraction", "Strategy" >>
    /\ turn[s].intelligence.upiIds # << >>
    /\ ~session[s].conversationEnded
    /\ session[s].agentNotes = << >>

\* ------------------------------------- properties of the value returned

\* C28: every value process_message returns that is not None is the
\* candidate of Response-Generation unchanged, accepted by the Safety-Gate
\* with no violation note appended in that turn, or it is the fixed safety
\* fallback sentence; a candidate the Safety-Gate rejected is never returned.
C28_ReturnsAcceptedOrFallback ==
  \A s \in Sessions :
    (Returned(s) /\ turn[s].ret # None) =>
      /\ Ran(s, "Safety-Gate")
      /\ \/ /\ turn[s].ret = Str(turn[s].candidate)
            /\ validate_response(turn[s].candidate).is_valid
            /\ turn[s].is_valid
            /\ NotesOfKind(s, "safety") = << >>
         \/ turn[s].ret = Str(SafeFallback)
      /\ ~validate_response(turn[s].candidate).is_valid =>
           turn[s].ret # Str(turn[s].candidate)

\* the first turn of the session had its candidate rejected and left a
\* violation note; the second turn returned its candidate unchanged and
\* appended no violation note
C28_Witness ==
  \E s \in Sessions :
    /\ Returned(s) /\ turn[s].count = 2
    /\ turn[s].ret = Str(CandidateOk)
    /\ turn[s].candidate = CandidateOk
    /\ NotesOfKind(s, "safety") = << >>
    /\ \E i \in 1..turn[s].notesBefore : session[s].agentNotes[i].kind = "safety"

\* ------------------------------------- properties of conversationEnded

\* C29: over any sequence of turns on one session, no step of a turn sets
\* conversationEnded back to false: once true it stays true in every later
\* turn, whatever Strategy decides.
C29_EndedStaysEnded ==
  [][\A s \in Sessions :
       session[s].conversationEnded => session'[s].conversationEnded]_vars

\* a session ended by its first turn went through a second turn that engaged
\* with goal CONTINUE and returned a response, and is still ended
C29_Witness ==
  \E s \in Sessions :
    /\ Returned(s) /\ turn[s].count = 2
    /\ turn[s].endedBefore
    /\ turn[s].strategy_decision = [goal |-> "CONTINUE", should_engage |-> TRUE]
    /\ turn[s].ret = Str(CandidateOk)
    /\ session[s].conversationEnded

\* ------------------------------------- properties of one number's shapes

Subscribers == { Mobile1, Mobile2 }

\* the four accepted written shapes of the subscriber number N, separators
\* aside
Shapes(N) == { << "+", "9", "1" >> \o N, << "9", "1" >> \o N, << "0" >> \o N, N }

\* the matches of the current message and the history that write N
WrittenAs(N) == { m \in PhoneMatches : WithoutSeparators(m) \in Shapes(N) }

EndsWith(s, suffix) ==
  Len(s) >= Len(suffix) /\ SubSeq(s, Len(s) - Len(suffix) + 1, Len(s)) = suffix

\* C30: on the regex method the four accepted shapes of one subscriber
\* number N, in whatever combination they are spread over the current message
\* and the history, all normalize to +91 followed by N: phoneNumbers holds
\* exactly one entry for that number; and normalizing a value that is already
\* normalized returns it unchanged.
C30_ShapesNormalizeToOne ==
  (Called /\ extracted.regexRan) =>
    LET phones == extracted.value.phoneNumbers IN
      /\ \A N \in Subscribers :
           WrittenAs(N) # {} =>
             /\ Occurrences(phones, << "+", "9", "1" >> \o N) = 1
             /\ \A i \in 1..Len(phones) :
                  EndsWith(phones[i], N) => phones[i] = << "+", "9", "1" >> \o N
      /\ \A i \in 1..Len(phones) :
           /\ FormatPhone(phones[i]) = << phones[i] >>
           /\ HistFormatPhone(phones[i]) = << phones[i] >>

\* the current message writes the first number bare, the history holds all
\* four shapes of it and three shapes of the second number: two entries
C30_Witness ==
  /\ Called /\ extracted.regexRan
  /\ curMessage = Message(TextBankRaw)
  /\ convHistory = << Message(TextAllShapes), Message(TextOther) >>
  /\ Cardinality(WrittenAs(Mobile1)) = 4
  /\ Cardinality(WrittenAs(Mobile2)) = 3
  /\ Len(extracted.value.phoneNumbers) = 2

=============================================================================
